---- MODULE Spec2Model ----
(***************************************************************************)
(* Feed Service: the posts router (src/routers/posts.py) with the pydantic  *)
(* schemas (src/model.py), over a relational store holding the tables      *)
(* Posts, Interests and PostInterests.                                      *)
(*                                                                         *)
(* Strings are TLA+ strings, so that quoting, strip('"'), isoformat() and   *)
(* str(datetime) are modelled by what they do to the characters.            *)
(* json.dumps(sort_keys=True) is ToString of the dictionary: a record is    *)
(* printed with its fields in one fixed order, whatever the order in which  *)
(* they were set.  hashlib.md5 is modelled without collisions, as a wrapper  *)
(* around the serialised text.                                               *)
(*                                                                         *)
(* The store is transactional: statements executed after the last commit    *)
(* are rolled back when the connection is closed.  A request is answered by *)
(* one action, which leaves the request, the response and the tables as     *)
(* they were before it in req, resp and before; Receive hands the response  *)
(* to the client and makes the service idle again.                          *)
(***************************************************************************)
EXTENDS Integers, Sequences, FiniteSets, TLC

VARIABLES Posts,          \* table Posts: post_id -> row
          PostInterests,  \* table PostInterests: set of <<post_id, interest_id>>
          auto_increment, \* next post_id the store assigns (cur.lastrowid)
          req,            \* the request being answered, NoReq when idle
          resp,           \* the response to req, NoResp when idle
          before,         \* the committed tables when req arrived
          held,           \* the ETag the client keeps from an earlier response
          threads         \* the requests that worker threads handle concurrently

vars == <<Posts, PostInterests, auto_increment, req, resp, before, held, threads>>

-----------------------------------------------------------------------------
(* Bounds of the model *)

MaxLen == 2      \* length of an interest_ids list in a payload

(* Python None / SQL NULL / absent header *)
None == "None"

(* post ids in requests; the store holds a row for each of them or not *)
PostIds == {1}
Users   == {1, 2}
Creators == {1}    \* created_by of the rows the store holds at the start
Titles  == {"t1", "t2"}
Bodies  == {None, "b1"}
Images  == {None, "u1"}
Uids    == {None, "", "uid-1"}

(* table Interests, read-only for this service *)
Interests == {[interest_id |-> 1, interest_name |-> "art"],
              [interest_id |-> 2, interest_name |-> "music"]}

InterestIds == {i.interest_id : i \in Interests}

(* interest ids a payload may name: the existing ones and one that is missing *)
PayloadInterestIds == InterestIds \cup {3}

(* created_at as the connector returns it: datetime objects, in ascending order *)
Clock == <<[type |-> "datetime", date |-> "2024-01-01", time |-> "10:00:00"],
          [type |-> "datetime", date |-> "2024-01-02", time |-> "09:30:00"]>>

Datetimes == {Clock[n] : n \in 1..Len(Clock)}


-----------------------------------------------------------------------------
(* Python helpers *)

(* truthiness of an Optional[str]: None and "" are falsy *)
Truthy(s) == s # None /\ s # ""

Quote == "\""

(* str.strip('"'): remove every leading and trailing double quote *)
RECURSIVE LStrip(_)
LStrip(s) ==
  IF Len(s) > 0 /\ SubSeq(s, 1, 1) = Quote THEN LStrip(SubSeq(s, 2, Len(s))) ELSE s

RECURSIVE RStrip(_)
RStrip(s) ==
  IF Len(s) > 0 /\ SubSeq(s, Len(s), Len(s)) = Quote
  THEN RStrip(SubSeq(s, 1, Len(s) - 1)) ELSE s

(* a comparison that does not remove the quotes *)
StripNothing(s) == s

Strip(s) == RStrip(LStrip(s))

(* datetime.isoformat(): date and time joined by "T" *)
isoformat(d) == d.date \o "T" \o d.time

(* str(datetime): date and time joined by a space; json.dumps(default=str) *)
str(d) == d.date \o " " \o d.time

(* json.dumps(data, sort_keys=True, default=str): created_at is the only    *)
(* field that can hold a value json cannot serialise (a datetime), which    *)
(* default=str renders; a string is tagged [type |-> "str"]                 *)
json_dumps(data) ==
  ToString([k \in DOMAIN data |->
              IF k = "created_at" /\ data[k].type = "datetime"
              THEN [type |-> "str", s |-> str(data[k])]
              ELSE data[k]])

md5_hexdigest(s) == "md5(" \o s \o ")"

generate_etag(data) == md5_hexdigest(json_dumps(data))

(* f'"{etag}"' *)
EtagHeader(etag) == Quote \o etag \o Quote

add_links(post_id) ==
  [self       |-> [href |-> "/posts/" \o ToString(post_id)],
   collection |-> [href |-> "/posts"],
   interests  |-> [href |-> "/posts/" \o ToString(post_id) \o "/interests"],
   author     |-> [href |-> "/users/" \o ToString(post_id)]]

(* get_firebase_uid_from_header: TRUE when the header passes *)
get_firebase_uid_from_header(uid) == Truthy(uid)

-----------------------------------------------------------------------------
(* Responses *)

NoBody == [empty |-> TRUE]

NoResp == [status |-> 0, etag |-> None, location |-> None, body |-> NoBody]

(* raise HTTPException(status_code=..., detail=...) *)
HTTPException(status_code, detail) ==
  [status |-> status_code, etag |-> None, location |-> None,
   body |-> [detail |-> detail]]

(* an exception the handler does not catch: 500 Internal Server Error *)
InternalServerError == HTTPException(500, "Internal Server Error")

Unauthenticated ==
  HTTPException(401, "Authentication required - x-firebase-uid header missing")

(* what a handler leaves behind: the committed tables and the response *)
Outcome(P, PI, ai, r) ==
  [Posts |-> P, PostInterests |-> PI, auto_increment |-> ai, resp |-> r]

-----------------------------------------------------------------------------
(* Store queries *)

RECURSIVE Ascending(_)
Ascending(S) ==
  IF S = {} THEN <<>>
  ELSE LET m == CHOOSE x \in S : \A y \in S : x <= y
       IN <<m>> \o Ascending(S \ {m})

(* the rows come back in the order of the interest_id index *)
get_post_interests(PI, post_id) ==
  LET ids == {i \in InterestIds : <<post_id, i>> \in PI}
      row(i) == CHOOSE r \in Interests : r.interest_id = i
      seq == Ascending(ids)
  IN [n \in 1..Len(seq) |-> row(seq[n])]

(* SELECT post_id, title, body, image_url, created_by, created_at FROM Posts *)
(* WHERE post_id = %s, for a post_id that is present                         *)
fetch_post(P, post_id) ==
  [post_id    |-> post_id,
   title      |-> P[post_id].title,
   body       |-> P[post_id].body,
   image_url  |-> P[post_id].image_url,
   created_by |-> P[post_id].created_by,
   created_at |-> P[post_id].created_at]

(* dict[key] = value *)
SetItem(d, key, value) ==
  [k \in DOMAIN d \cup {key} |-> IF k = key THEN value ELSE d[k]]

(* if isinstance(post['created_at'], datetime):                              *)
(*     post['created_at'] = post['created_at'].isoformat()                   *)
ConvertCreatedAt(d) ==
  IF d.created_at.type = "datetime"
  THEN SetItem(d, "created_at", [type |-> "str", s |-> isoformat(d.created_at)])
  ELSE d

(* PostInterests(post_id, interest_id) holds each pair once: inserting a    *)
(* pair that is present raises IntegrityError                                *)
UniquePair(rows, post_id, interest_id) == <<post_id, interest_id>> \notin rows

(* for interest_id in interest_ids: verify the interest exists, then insert *)
(* the association; rows is the table as the open transaction sees it       *)
RECURSIVE associate(_, _, _)
associate(post_id, interest_ids, rows) ==
  IF interest_ids = <<>> THEN [outcome |-> "ok", rows |-> rows, interest_id |-> 0]
  ELSE LET interest_id == Head(interest_ids) IN
       IF interest_id \notin InterestIds
       THEN [outcome |-> "not found", rows |-> rows, interest_id |-> interest_id]
       ELSE IF ~UniquePair(rows, post_id, interest_id)
       THEN [outcome |-> "duplicate", rows |-> rows, interest_id |-> interest_id]
       ELSE associate(post_id, Tail(interest_ids),
                      rows \cup {<<post_id, interest_id>>})

-----------------------------------------------------------------------------
(* Schemas, src/model.py *)

(* fields of PostCreate: those of PostBase and interest_ids *)
PostCreate == {"title", "body", "image_url", "interest_ids"}

(* fields of PostUpdate, all Optional with default None *)
PostUpdate == {"title", "body", "image_url", "interest_ids"}

(* pydantic builds the model from the JSON body and ignores keys that are   *)
(* not fields of the model                                                   *)
ParsePostCreate(json) == [k \in DOMAIN json \cap PostCreate |-> json[k]]

(* PostUpdate built from the JSON body: the fields it names are set, others  *)
(* hold their default None; keys that are not fields of the model are       *)
(* ignored                                                                   *)
ParsePostUpdate(json) ==
  [fields_set   |-> DOMAIN json \cap PostUpdate,
   title        |-> IF "title" \in DOMAIN json THEN json.title ELSE None,
   body         |-> IF "body" \in DOMAIN json THEN json.body ELSE None,
   image_url    |-> IF "image_url" \in DOMAIN json THEN json.image_url ELSE None,
   interest_ids |-> IF "interest_ids" \in DOMAIN json
                    THEN <<json.interest_ids>> ELSE <<>>]

(* Optional[List[int]]: <<>> is None, <<l>> is the list l *)
NoneList == <<>>
SomeList(l) == <<l>>

-----------------------------------------------------------------------------
(* Handlers: each maps the committed tables and a request to an Outcome *)

(* GET /posts/{post_id} *)
get_post(P, PI, ai, post_id, if_none_match) ==
  IF post_id \notin DOMAIN P
  THEN Outcome(P, PI, ai, HTTPException(404, "Post not found"))
  ELSE LET post0 == SetItem(fetch_post(P, post_id), "interests",
                            get_post_interests(PI, post_id))
           post  == ConvertCreatedAt(post0)
           etag  == generate_etag(post)
       IN IF Truthy(if_none_match) /\ Strip(if_none_match) = etag
          THEN \* return Response(status_code=304): a new response object,
               \* without the headers set on the injected one
               Outcome(P, PI, ai, [status |-> 304, etag |-> None,
                                   location |-> None, body |-> NoBody])
          ELSE Outcome(P, PI, ai,
                       [status |-> 200, etag |-> EtagHeader(etag),
                        location |-> None,
                        body |-> SetItem(post, "links", add_links(post_id))])

(* POST /posts *)
create_post(P, PI, ai, uid, json) ==
  LET post == ParsePostCreate(json) IN
  IF ~get_firebase_uid_from_header(uid)
  THEN Outcome(P, PI, ai, Unauthenticated)
  ELSE IF "created_by" \notin DOMAIN post
  THEN \* values = (post.title, ..., post.created_by): AttributeError
       Outcome(P, PI, ai, InternalServerError)
  ELSE
    LET post_id == ai
        \* INSERT INTO Posts ...; cnx.commit()
        P1 == [k \in DOMAIN P \cup {post_id} |->
                 IF k = post_id
                 THEN [title |-> post.title, body |-> post.body,
                       image_url |-> post.image_url,
                       created_by |-> post.created_by,
                       created_at |-> Clock[Len(Clock)]]
                 ELSE P[k]]
        loop == IF post.interest_ids # <<>>
                THEN associate(post_id, post.interest_ids, PI)
                ELSE [outcome |-> "ok", rows |-> PI, interest_id |-> 0]
    IN IF loop.outcome = "not found"
       THEN \* cnx.close() before the commit: the inserted associations are
            \* rolled back, the post row is already committed
            Outcome(P1, PI, ai + 1,
                    HTTPException(400, "Interest " \o ToString(loop.interest_id)
                                       \o " not found"))
       ELSE IF loop.outcome = "duplicate"
       THEN Outcome(P1, PI, ai + 1, InternalServerError)
       ELSE LET created == SetItem(SetItem(fetch_post(P1, post_id), "interests",
                                           get_post_interests(loop.rows, post_id)),
                                   "links", add_links(post_id))
            IN Outcome(P1, loop.rows, ai + 1,
                       [status |-> 201, etag |-> None,
                        location |-> "/posts/" \o ToString(post_id),
                        body |-> ConvertCreatedAt(created)])

(* the checks without the comparison of If-Match *)
update_post_checks_no_etag(P, PI, uid, post_id, created_by, if_match) ==
  IF ~get_firebase_uid_from_header(uid) THEN Unauthenticated
  ELSE IF post_id \notin DOMAIN P THEN HTTPException(404, "Post not found")
  ELSE IF P[post_id].created_by # created_by
  THEN HTTPException(403, "You can only update posts you created")
  ELSE NoResp

(* PUT /posts/{post_id}, lines 311-342: authentication, existence,         *)
(* ownership and the If-Match precondition; NoResp when all of them pass    *)
update_post_checks(P, PI, uid, post_id, created_by, if_match) ==
  IF ~get_firebase_uid_from_header(uid) THEN Unauthenticated
  ELSE IF post_id \notin DOMAIN P THEN HTTPException(404, "Post not found")
  ELSE IF P[post_id].created_by # created_by
  THEN HTTPException(403, "You can only update posts you created")
  ELSE IF Truthy(if_match)
  THEN LET existing_post == SetItem(fetch_post(P, post_id), "interests",
                                    get_post_interests(PI, post_id))
           \* created_at is still the datetime object here
           existing_etag == generate_etag(existing_post)
       IN IF Strip(if_match) # existing_etag
          THEN HTTPException(412, "Precondition Failed: eTag mismatch")
          ELSE NoResp
  ELSE NoResp

(* the writes of a PUT that sets every scalar field the payload supplies,   *)
(* an explicit null included                                                 *)
update_post_apply_nulls(P, PI, ai, post_id, post) ==
  LET interest_ids == IF "interest_ids" \in post.fields_set
                      THEN post.interest_ids ELSE NoneList
      fields       == post.fields_set \ {"interest_ids"}
      P1 == IF fields # {}
            THEN [P EXCEPT ![post_id] =
                    [k \in DOMAIN P[post_id] |->
                       IF k \in fields THEN post[k] ELSE P[post_id][k]]]
            ELSE P
      loop == IF interest_ids # NoneList
              THEN associate(post_id, interest_ids[1],
                             {r \in PI : r[1] # post_id})
              ELSE [outcome |-> "ok", rows |-> PI, interest_id |-> 0]
  IN IF loop.outcome = "not found"
     THEN Outcome(P1, PI, ai,
                  HTTPException(400, "Interest " \o ToString(loop.interest_id)
                                     \o " not found"))
     ELSE IF loop.outcome = "duplicate"
     THEN Outcome(P1, PI, ai, InternalServerError)
     ELSE LET updated_post ==
                ConvertCreatedAt(
                  SetItem(SetItem(fetch_post(P1, post_id), "interests",
                                  get_post_interests(loop.rows, post_id)),
                          "links", add_links(post_id)))
              etag == generate_etag(updated_post)
          IN Outcome(P1, loop.rows, ai,
                     [status |-> 200, etag |-> EtagHeader(etag),
                      location |-> None, body |-> updated_post])

(* the writes of a PUT that adds the payload's interests to the ones the    *)
(* post has, without deleting the existing associations first               *)
update_post_apply_merge(P, PI, ai, post_id, post) ==
  LET interest_ids == IF "interest_ids" \in post.fields_set
                      THEN post.interest_ids ELSE NoneList
      update_dict  == post.fields_set \ {"interest_ids"}
      fields       == {key \in update_dict : post[key] # None}
      P1 == IF fields # {}
            THEN [P EXCEPT ![post_id] =
                    [k \in DOMAIN P[post_id] |->
                       IF k \in fields THEN post[k] ELSE P[post_id][k]]]
            ELSE P
      fresh(l) == SelectSeq(l, LAMBDA i : <<post_id, i>> \notin PI)
      loop == IF interest_ids # NoneList
              THEN associate(post_id, fresh(interest_ids[1]), PI)
              ELSE [outcome |-> "ok", rows |-> PI, interest_id |-> 0]
  IN IF loop.outcome = "not found"
     THEN Outcome(P1, PI, ai,
                  HTTPException(400, "Interest " \o ToString(loop.interest_id)
                                     \o " not found"))
     ELSE IF loop.outcome = "duplicate"
     THEN Outcome(P1, PI, ai, InternalServerError)
     ELSE LET updated_post ==
                ConvertCreatedAt(
                  SetItem(SetItem(fetch_post(P1, post_id), "interests",
                                  get_post_interests(loop.rows, post_id)),
                          "links", add_links(post_id)))
              etag == generate_etag(updated_post)
          IN Outcome(P1, loop.rows, ai,
                     [status |-> 200, etag |-> EtagHeader(etag),
                      location |-> None, body |-> updated_post])

(* the writes of a PUT whose UPDATE also stamps the row with the current    *)
(* time                                                                      *)
update_post_apply_touch(P, PI, ai, post_id, post) ==
  LET interest_ids == IF "interest_ids" \in post.fields_set
                      THEN post.interest_ids ELSE NoneList
      update_dict  == post.fields_set \ {"interest_ids"}
      fields       == {key \in update_dict : post[key] # None}
      P1 == IF fields # {}
            THEN [P EXCEPT ![post_id] =
                    [k \in DOMAIN P[post_id] |->
                       IF k \in fields THEN post[k]
                       ELSE IF k = "created_at" THEN Clock[Len(Clock)]
                       ELSE P[post_id][k]]]
            ELSE P
      loop == IF interest_ids # NoneList
              THEN associate(post_id, interest_ids[1],
                             {r \in PI : r[1] # post_id})
              ELSE [outcome |-> "ok", rows |-> PI, interest_id |-> 0]
  IN IF loop.outcome = "not found"
     THEN Outcome(P1, PI, ai,
                  HTTPException(400, "Interest " \o ToString(loop.interest_id)
                                     \o " not found"))
     ELSE IF loop.outcome = "duplicate"
     THEN Outcome(P1, PI, ai, InternalServerError)
     ELSE LET updated_post ==
                ConvertCreatedAt(
                  SetItem(SetItem(fetch_post(P1, post_id), "interests",
                                  get_post_interests(loop.rows, post_id)),
                          "links", add_links(post_id)))
              etag == generate_etag(updated_post)
          IN Outcome(P1, loop.rows, ai,
                     [status |-> 200, etag |-> EtagHeader(etag),
                      location |-> None, body |-> updated_post])

(* PUT /posts/{post_id}, lines 344-409: the writes and the response *)
update_post_apply(P, PI, ai, post_id, post) ==
  LET \* update_dict = post.dict(exclude_unset=True), interest_ids popped
      interest_ids == IF "interest_ids" \in post.fields_set
                      THEN post.interest_ids ELSE NoneList
      update_dict  == post.fields_set \ {"interest_ids"}
      fields       == {key \in update_dict : post[key] # None}
      \* UPDATE Posts SET ... WHERE post_id = %s; cnx.commit()
      P1 == IF fields # {}
            THEN [P EXCEPT ![post_id] =
                    [k \in DOMAIN P[post_id] |->
                       IF k \in fields THEN post[k] ELSE P[post_id][k]]]
            ELSE P
      \* DELETE FROM PostInterests WHERE post_id = %s, then the inserts
      loop == IF interest_ids # NoneList
              THEN associate(post_id, interest_ids[1],
                             {r \in PI : r[1] # post_id})
              ELSE [outcome |-> "ok", rows |-> PI, interest_id |-> 0]
  IN IF loop.outcome = "not found"
     THEN \* cnx.close() before the commit: the delete and the inserts are
          \* rolled back, the UPDATE is already committed
          Outcome(P1, PI, ai,
                  HTTPException(400, "Interest " \o ToString(loop.interest_id)
                                     \o " not found"))
     ELSE IF loop.outcome = "duplicate"
     THEN Outcome(P1, PI, ai, InternalServerError)
     ELSE LET updated_post ==
                ConvertCreatedAt(
                  SetItem(SetItem(fetch_post(P1, post_id), "interests",
                                  get_post_interests(loop.rows, post_id)),
                          "links", add_links(post_id)))
              etag == generate_etag(updated_post)
          IN Outcome(P1, loop.rows, ai,
                     [status |-> 200, etag |-> EtagHeader(etag),
                      location |-> None, body |-> updated_post])

update_post(P, PI, ai, uid, post_id, created_by, if_match, post) ==
  LET failed == update_post_checks(P, PI, uid, post_id, created_by, if_match)
  IN IF failed # NoResp THEN Outcome(P, PI, ai, failed)
     ELSE update_post_apply(P, PI, ai, post_id, post)

(* the delete handler without the ownership check *)
delete_post_any(P, PI, ai, uid, post_id, created_by) ==
  IF ~get_firebase_uid_from_header(uid) THEN Outcome(P, PI, ai, Unauthenticated)
  ELSE IF post_id \notin DOMAIN P
  THEN Outcome(P, PI, ai, HTTPException(404, "Post not found"))
  ELSE Outcome([k \in DOMAIN P \ {post_id} |-> P[k]], PI, ai,
               [status |-> 200, etag |-> None, location |-> None,
                body |-> [status |-> "deleted", post_id |-> post_id]])

(* DELETE /posts/{post_id} *)
delete_post(P, PI, ai, uid, post_id, created_by) ==
  IF ~get_firebase_uid_from_header(uid) THEN Outcome(P, PI, ai, Unauthenticated)
  ELSE IF post_id \notin DOMAIN P
  THEN Outcome(P, PI, ai, HTTPException(404, "Post not found"))
  ELSE IF P[post_id].created_by # created_by
  THEN Outcome(P, PI, ai,
               HTTPException(403, "You can only delete posts you created"))
  ELSE \* DELETE FROM Posts WHERE post_id = %s; cnx.commit()
       Outcome([k \in DOMAIN P \ {post_id} |-> P[k]], PI, ai,
               [status |-> 200, etag |-> None, location |-> None,
                body |-> [status |-> "deleted", post_id |-> post_id]])

(* GET /posts/interests/: SELECT ... FROM Interests ORDER BY interest_name *)
get_interests(P, PI, ai, uid) ==
  IF ~get_firebase_uid_from_header(uid) THEN Outcome(P, PI, ai, Unauthenticated)
  ELSE LET seq == Ascending(InterestIds)  \* the names ascend with the ids
           row(i) == CHOOSE r \in Interests : r.interest_id = i
       IN Outcome(P, PI, ai,
                  [status |-> 200, etag |-> None, location |-> None,
                   body |-> [list |-> [n \in 1..Len(seq) |-> row(seq[n])]]])

-----------------------------------------------------------------------------
(* GET /posts *)

(* Optional[int] query parameter: <<>> is None, <<n>> is the integer n *)
NoneInt == <<>>
SomeInt(n) == <<n>>

(* truthiness of an Optional[int]: None and 0 are falsy *)
TruthyInt(x) == x # NoneInt /\ x[1] # 0

(* column LIKE '%search%', NULL never matches *)
Like(column, search) ==
  /\ column # None
  /\ \E i \in 1..(Len(column) - Len(search) + 1) :
        SubSeq(column, i, i + Len(search) - 1) = search

(* the WHERE clause assembled from the supplied filters *)
where_sql(P, PI, post_id, interest_id, created_by, search) ==
  /\ TruthyInt(interest_id) => <<post_id, interest_id[1]>> \in PI
  /\ TruthyInt(created_by) => P[post_id].created_by = created_by[1]
  /\ Truthy(search) => \/ Like(P[post_id].title, search)
                       \/ Like(P[post_id].body, search)

(* position of a datetime in time *)
Rank(d) == CHOOSE n \in 1..Len(Clock) : Clock[n] = d

(* ORDER BY p.created_at DESC; rows of one created_at in primary key order *)
RECURSIVE OrderByCreatedAtDesc(_, _)
OrderByCreatedAtDesc(P, ids) ==
  IF ids = {} THEN <<>>
  ELSE LET first == CHOOSE x \in ids : \A y \in ids :
                      \/ Rank(P[x].created_at) > Rank(P[y].created_at)
                      \/ /\ Rank(P[x].created_at) = Rank(P[y].created_at)
                         /\ x <= y
       IN <<first>> \o OrderByCreatedAtDesc(P, ids \ {first})

(* the smaller of the two, where the code takes the larger *)
Min(a, b) == IF a <= b THEN a ELSE b

Max(a, b) == IF a >= b THEN a ELSE b

(* lines 157-170: the pagination metadata and links of the list response *)
pagination(total, skip, limit) ==
  LET href(k) == [href |-> "/posts?skip=" \o ToString(k) \o "&limit="
                           \o ToString(limit)]
  IN [total |-> total, skip |-> skip, limit |-> limit,
      has_more |-> (skip + limit) < total,
      links |-> [self  |-> href(skip),
                 first |-> href(0),
                 last  |-> href(Max(0, ((total - 1) \div limit) * limit)),
                 next  |-> IF (skip + limit) < total
                           THEN href(skip + limit) ELSE [href |-> None],
                 prev  |-> IF skip > 0
                           THEN href(Max(0, skip - limit))
                           ELSE [href |-> None]]]

get_posts(P, PI, ai, uid, skip, limit, interest_id, created_by, search) ==
  IF ~get_firebase_uid_from_header(uid) THEN Outcome(P, PI, ai, Unauthenticated)
  ELSE
    LET matching == {id \in DOMAIN P :
                       where_sql(P, PI, id, interest_id, created_by, search)}
        total    == Cardinality(matching)
        ordered  == OrderByCreatedAtDesc(P, matching)
        \* LIMIT %s OFFSET %s
        page     == SubSeq(ordered, skip + 1,
                           IF skip + limit < Len(ordered)
                           THEN skip + limit ELSE Len(ordered))
        item(id) == ConvertCreatedAt(
                      SetItem(SetItem(fetch_post(P, id), "interests",
                                      get_post_interests(PI, id)),
                              "links", add_links(id)))
        posts    == [n \in 1..Len(page) |-> item(page[n])]
        etag     == generate_etag([posts |-> posts, total |-> total,
                                  skip |-> skip, limit |-> limit])
    IN Outcome(P, PI, ai,
         [status |-> 200, etag |-> EtagHeader(etag), location |-> None,
          body |-> SetItem(pagination(total, skip, limit), "items", posts)])

-----------------------------------------------------------------------------
(* Requests *)

NoReq == [op |-> "none", uid |-> None, post_id |-> 0, created_by |-> 0,
          header |-> None, payload |-> NoBody]

(* header is If-None-Match for get_post and If-Match for update_post *)
Request(op, uid, post_id, created_by, header, payload) ==
  [op |-> op, uid |-> uid, post_id |-> post_id, created_by |-> created_by,
   header |-> header, payload |-> payload]

NoTok == [post_id |-> 0, etag |-> None, src |-> "none", fresh |-> FALSE]

(* query parameters of GET /posts *)
ListQueries ==
  [skip : {0}, limit : {10}, interest_id : {NoneInt}, created_by : {NoneInt},
   search : {None}]

(* interest_ids lists of a payload *)
InterestLists == UNION {[1..n -> PayloadInterestIds] : n \in 0..MaxLen}

(* JSON bodies of POST /posts *)
CreateBodies ==
  [title : {"t1"}, body : Bodies, image_url : {None}, created_by : {1},
   interest_ids : InterestLists]

(* the sets of fields a PUT payload supplies *)
UpdateFieldSets ==
  {{}, {"title"}, {"body"}, {"image_url"}, {"interest_ids"},
   {"title", "interest_ids"}}

(* PostUpdate objects: a field that is not set holds its default None, a    *)
(* scalar field that is set holds a value or an explicit null               *)
UpdateBodies ==
  {b \in [fields_set : UpdateFieldSets,
          title : Titles \cup {None}, body : Bodies, image_url : Images,
          interest_ids : {NoneList} \cup {SomeList(x) : x \in InterestLists}] :
     /\ "title" \notin b.fields_set => b.title = None
     /\ "body" \notin b.fields_set => b.body = None
     /\ "image_url" \notin b.fields_set => b.image_url = None
     /\ ("interest_ids" \in b.fields_set) = (b.interest_ids # NoneList)
     /\ b.fields_set = {"title", "interest_ids"} => b.title = "t2"}

(* a request that is rejected before its payload is read (no identity       *)
(* header, or a PUT with the created_by of another user) is sent with few   *)
(* payloads                                                                  *)
AnonymousCreateBodies ==
  {b \in CreateBodies : b.body = "b1" /\ b.created_by = 1 /\ Len(b.interest_ids) = 1}

AnonymousUpdateBodies ==
  {b \in UpdateBodies :
     \/ b.fields_set = {}
     \/ b.title = "t2" /\ b.interest_ids = SomeList(<<1>>)}

(* the strings a client sends as If-None-Match or If-Match: nothing, the    *)
(* ETag it holds as received or without its quotes, a token of its own      *)
ClientHeaders(own) ==
  {None} \cup own \cup
  (IF held # NoTok THEN {held.etag, Strip(held.etag)} ELSE {})

(* the token a client computes itself over the stored post *)
ClientComputed(post_id) ==
  IF post_id \in DOMAIN Posts
  THEN {EtagHeader(generate_etag(SetItem(fetch_post(Posts, post_id), "interests",
                                         get_post_interests(PostInterests, post_id))))}
  ELSE {}

-----------------------------------------------------------------------------
(* The service over its store *)

Tables == [Posts |-> Posts, PostInterests |-> PostInterests]

NoTables == [Posts |-> <<>>, PostInterests |-> {}]

(* the service starts over whatever rows the store holds *)
Init ==
  /\ \E ids \in SUBSET PostIds :
       Posts \in [ids -> [title : Titles, body : Bodies, image_url : Images,
                          created_by : Creators, created_at : {Clock[1]}]]
  /\ PostInterests \in SUBSET ((DOMAIN Posts) \X InterestIds)
  /\ auto_increment = Cardinality(PostIds) + 1
  /\ req = NoReq
  /\ resp = NoResp
  /\ before = NoTables
  /\ held = NoTok
  /\ threads = <<>>

(* a handler answers request r with outcome o *)
Handle(r, o) ==
  /\ req' = r
  /\ before' = Tables
  /\ Posts' = o.Posts
  /\ PostInterests' = o.PostInterests
  /\ auto_increment' = o.auto_increment
  /\ resp' = o.resp
  /\ UNCHANGED <<held, threads>>

GetPosts ==
  /\ resp = NoResp
  /\ \E uid \in Uids, q \in ListQueries :
    Handle(Request("get_posts", uid, 0, 0, None, q),
           get_posts(Posts, PostInterests, auto_increment, uid, q.skip, q.limit,
                     q.interest_id, q.created_by, q.search))

GetPost ==
  /\ resp = NoResp
  /\ \E uid \in Uids, post_id \in PostIds, if_none_match \in ClientHeaders({}) :
    Handle(Request("get_post", uid, post_id, 0, if_none_match, NoBody),
           get_post(Posts, PostInterests, auto_increment, post_id, if_none_match))

CreatePost ==
  /\ resp = NoResp
  /\ \E uid \in Uids :
    \E json \in IF Truthy(uid) THEN CreateBodies ELSE AnonymousCreateBodies :
    Handle(Request("create_post", uid, 0, 0, None, json),
           create_post(Posts, PostInterests, auto_increment, uid, json))

UpdatePost ==
  /\ resp = NoResp
  /\ \E uid \in Uids, post_id \in PostIds, created_by \in Users :
    \E post \in IF Truthy(uid) /\ created_by \in Creators
                 THEN UpdateBodies ELSE AnonymousUpdateBodies,
       if_match \in ClientHeaders(ClientComputed(post_id)) :
      Handle(Request("update_post", uid, post_id, created_by, if_match, post),
             update_post(Posts, PostInterests, auto_increment, uid, post_id,
                         created_by, if_match, post))

DeletePost ==
  /\ resp = NoResp
  /\ \E uid \in Uids, post_id \in PostIds, created_by \in Users :
    Handle(Request("delete_post", uid, post_id, created_by, None, NoBody),
           delete_post(Posts, PostInterests, auto_increment, uid, post_id,
                       created_by))

GetInterests ==
  /\ resp = NoResp
  /\ \E uid \in Uids :
    Handle(Request("get_interests", uid, 0, 0, None, NoBody),
           get_interests(Posts, PostInterests, auto_increment, uid))

(* the post and its associations as stored in tables t *)
Stored(t, post_id) ==
  [row  |-> IF post_id \in DOMAIN t.Posts THEN <<t.Posts[post_id]>> ELSE <<>>,
   rows |-> {r \in t.PostInterests : r[1] = post_id}]

(* the client takes the response; it keeps the ETag it held or the one of    *)
(* the response, and an ETag it holds is no longer fresh once the post or    *)
(* its associations were written                                             *)
Receive ==
  /\ resp # NoResp
  /\ \E keep \in BOOLEAN :
       held' = IF ~keep /\ resp.etag # None /\ req.op \in {"get_post", "update_post"}
               THEN [post_id |-> req.post_id, etag |-> resp.etag,
                     src |-> req.op, fresh |-> TRUE]
               ELSE IF held # NoTok
                       /\ Stored(before, held.post_id) # Stored(Tables, held.post_id)
               THEN [held EXCEPT !.fresh = FALSE]
               ELSE held
  /\ req' = NoReq
  /\ resp' = NoResp
  /\ before' = NoTables
  /\ UNCHANGED <<Posts, PostInterests, auto_increment, threads>>

Next ==
  \/ GetPosts
  \/ GetPost
  \/ CreatePost
  \/ UpdatePost
  \/ DeletePost
  \/ GetInterests
  \/ Receive

Spec == Init /\ [][Next]_vars

-----------------------------------------------------------------------------
(* GET /posts over a store of several posts *)

MaxPosts == 2    \* number of posts the store holds when it is listed

ListPostIds == 1..MaxPosts

(* query parameters of GET /posts: skip >= 0, 1 <= limit <= 100, each       *)
(* filter absent or given, 0 and the empty string included                  *)
FilterQueries ==
  [skip : 0..(MaxPosts + 1), limit : {1, 2},
   interest_id : {NoneInt, SomeInt(0), SomeInt(1)},
   created_by : {NoneInt, SomeInt(0), SomeInt(2)},
   search : {None, "", "b"}]

(* the store holds posts 1..n, of two creators and two instants, with or    *)
(* without a body, associated with interest 1 or with none                  *)
InitList ==
  /\ \E n \in 0..MaxPosts :
       Posts \in [1..n -> [title : {"t1"}, body : Bodies, image_url : {None},
                           created_by : Users, created_at : Datetimes]]
  /\ PostInterests \in SUBSET ((DOMAIN Posts) \X {1})
  /\ auto_increment = MaxPosts + 1
  /\ req = NoReq
  /\ resp = NoResp
  /\ before = NoTables
  /\ held = NoTok
  /\ threads = <<>>

ListPosts ==
  /\ resp = NoResp
  /\ \E uid \in {"uid-1"}, q \in FilterQueries :
    Handle(Request("get_posts", uid, 0, 0, None, q),
           get_posts(Posts, PostInterests, auto_increment, uid, q.skip, q.limit,
                     q.interest_id, q.created_by, q.search))

NextList ==
  \/ ListPosts
  \/ Receive

SpecList == InitList /\ [][NextList]_vars

-----------------------------------------------------------------------------
(* PUT /posts/{post_id} with the JSON body as the client sends it *)

(* JSON bodies of a PUT, some of them with keys PostUpdate does not have *)
UpdateJsons ==
  {[title |-> "t2"],
   [title |-> "t2", created_by |-> 2],
   [body |-> "b1", created_at |-> "2030-01-01T00:00:00"],
   [post_id |-> 7, created_by |-> 2, created_at |-> "2030-01-01T00:00:00"],
   [image_url |-> "u1", interest_ids |-> <<1>>, post_id |-> 7],
   [interest_ids |-> <<2, 3>>, created_by |-> 2]}

PutPost ==
  /\ resp = NoResp
  /\ \E uid \in {"uid-1"}, post_id \in PostIds, created_by \in Users,
        json \in UpdateJsons :
      Handle(Request("update_post", uid, post_id, created_by, None, json),
             update_post(Posts, PostInterests, auto_increment, uid, post_id,
                         created_by, None, ParsePostUpdate(json)))

NextPut ==
  \/ PutPost
  \/ CreatePost
  \/ DeletePost
  \/ Receive

SpecPut == Init /\ [][NextPut]_vars

-----------------------------------------------------------------------------
(* Two PUT requests on one post, each handled by its own worker thread over *)
(* its own connection.  A thread runs the checks of lines 311-342 and then  *)
(* the writes of lines 344-409; the store orders the statements of the two  *)
(* threads, and nothing keeps the other thread from running in between.     *)

Workers == {1, 2}

(* payloads that set the title or the body *)
RacePayloads == {b \in UpdateBodies : b.fields_set \in {{"title"}, {"body"}}}

(* a thread that has not started on its request; writes_seen is the number  *)
(* of committed writes when it ran its checks, turn its place among the     *)
(* threads that wrote                                                        *)
Thread(r) == [pc |-> "start", req |-> r, resp |-> NoResp, writes_seen |-> 0,
              turn |-> 0]

InitRace ==
  /\ Posts \in [{1} -> [title : Titles, body : Bodies, image_url : {None},
                        created_by : Creators, created_at : {Clock[1]}]]
  /\ PostInterests \in SUBSET ((DOMAIN Posts) \X InterestIds)
  /\ auto_increment = 2
  /\ req = NoReq
  /\ resp = NoResp
  /\ before = NoTables
  /\ held = NoTok
  /\ threads \in [Workers ->
       {Thread(Request("update_post", "uid-1", 1, 1, if_match, post)) :
          if_match \in {None} \cup ClientComputed(1)
                      \cup {Strip(t) : t \in ClientComputed(1)},
          post \in RacePayloads}]

Writes == Cardinality({w \in Workers : threads[w].turn > 0})

(* lines 311-342 *)
RaceCheck(w) ==
  /\ threads[w].pc = "start"
  /\ LET r == threads[w].req
         failed == update_post_checks(Posts, PostInterests, r.uid, r.post_id,
                                      r.created_by, r.header)
     IN threads' = [threads EXCEPT ![w] =
                      [@ EXCEPT !.pc = IF failed # NoResp THEN "done" ELSE "checked",
                                !.resp = failed,
                                !.writes_seen = Writes]]
  /\ UNCHANGED <<Posts, PostInterests, auto_increment, req, resp, before, held>>

(* lines 344-409 *)
RaceApply(w) ==
  /\ threads[w].pc = "checked"
  /\ LET r == threads[w].req
         o == update_post_apply(Posts, PostInterests, auto_increment, r.post_id,
                                r.payload)
     IN /\ Posts' = o.Posts
        /\ PostInterests' = o.PostInterests
        /\ auto_increment' = o.auto_increment
        /\ threads' = [threads EXCEPT ![w] =
                         [@ EXCEPT !.pc = "done", !.resp = o.resp,
                                   !.turn = Writes + 1]]
  /\ UNCHANGED <<req, resp, before, held>>

NextRace ==
  \/ \E w \in Workers : RaceCheck(w)
  \/ \E w \in Workers : RaceApply(w)

SpecRace == InitRace /\ [][NextRace]_vars

-----------------------------------------------------------------------------
(* The pagination metadata as a function of total, skip and limit *)

MaxTotal == 26   \* largest count of matching posts

Limits == {1, 2, 3, 10, 100}

(* a list request whose query matches total posts *)
InitPage ==
  /\ Posts = <<>>
  /\ PostInterests = {}
  /\ auto_increment = 1
  /\ \E total \in 0..MaxTotal, skip \in 0..(MaxTotal + 4), limit \in Limits :
       req = Request("get_posts", "uid-1", 0, 0, None,
                     [skip |-> skip, limit |-> limit, total |-> total])
  /\ resp = NoResp
  /\ before = NoTables
  /\ held = NoTok
  /\ threads = <<>>

Paginate ==
  /\ resp = NoResp
  /\ req.op = "get_posts"
  /\ resp' = [status |-> 200, etag |-> None, location |-> None,
              body |-> pagination(req.payload.total, req.payload.skip,
                                  req.payload.limit)]
  /\ UNCHANGED <<Posts, PostInterests, auto_increment, req, before, held, threads>>

NextPage == Paginate

SpecPage == InitPage /\ [][NextPage]_vars

-----------------------------------------------------------------------------
(* Properties.  They are stated over the state in which a request has been  *)
(* answered: req is the request, resp its response, before the committed    *)
(* tables when it arrived, Posts and PostInterests the committed tables now, *)
(* held the ETag the client kept from an earlier response.                   *)

Answered == resp # NoResp

Authenticated == Truthy(req.uid)

Existed == req.post_id \in DOMAIN before.Posts

ByCreator == Existed /\ before.Posts[req.post_id].created_by = req.created_by

StoreUnchanged == Tables = before

(* the client sends the ETag it holds for the post, with or without quotes *)
SendsHeld ==
  /\ held # NoTok
  /\ held.post_id = req.post_id
  /\ req.header \in {held.etag, Strip(held.etag)}

Range(f) == {f[x] : x \in DOMAIN f}

HasMissingInterest(l) == \E n \in DOMAIN l : l[n] \notin InterestIds

(* C1: a GET of an existing post that carries, as If-None-Match, the ETag   *)
(* an earlier GET of that post returned (quoted or not), with no write to   *)
(* the post or its associations in between, is answered 304 without a body. *)
C1_ConditionalGet ==
  (/\ Answered
   /\ req.op = "get_post"
   /\ Existed
   /\ SendsHeld
   /\ held.src = "get_post"
   /\ held.fresh)
  => (resp.status = 304 /\ resp.body = NoBody)

C1_Witness ==
  /\ Answered
  /\ req.op = "get_post"
  /\ Existed
  /\ held.src = "get_post"
  /\ held.fresh
  /\ held.post_id = req.post_id
  /\ req.header = held.etag
  /\ resp.status = 304

(* C2 as stated: once an update changed the post, every further PUT on it   *)
(* whose If-Match carries the token from before that update is answered 412 *)
(* and leaves the post and its associations as they were.                   *)
C2_Original ==
  (/\ Answered
   /\ req.op = "update_post"
   /\ Existed
   /\ SendsHeld
   /\ ~held.fresh)
  => (resp.status = 412 /\ StoreUnchanged)

(* C2 as amended: once an update changed the post, every further           *)
(* authenticated PUT on it by the post's creator whose If-Match carries the *)
(* token from before that update is answered 412 and leaves the post and    *)
(* its associations as they were.                                           *)
C2_StalePut ==
  (/\ Answered
   /\ req.op = "update_post"
   /\ Authenticated
   /\ ByCreator
   /\ SendsHeld
   /\ ~held.fresh)
  => (resp.status = 412 /\ StoreUnchanged)

C2_Witness ==
  /\ Answered
  /\ req.op = "update_post"
  /\ Authenticated
  /\ ByCreator
  /\ SendsHeld
  /\ ~held.fresh
  /\ req.payload.fields_set = {"title"}
  /\ req.payload.title # before.Posts[req.post_id].title
  /\ resp.status = 412

(* C3: a PUT by the post's creator whose If-Match is the ETag the most      *)
(* recent GET of the post returned, with no write in between, is not        *)
(* answered 412.                                                            *)
C3_ReadTokenPasses ==
  (/\ Answered
   /\ req.op = "update_post"
   /\ Authenticated
   /\ ByCreator
   /\ SendsHeld
   /\ held.src = "get_post"
   /\ held.fresh)
  => resp.status # 412

(* C4 as stated: a PUT or DELETE on an existing post whose created_by       *)
(* differs from the stored one is answered 403 and leaves the store as it   *)
(* was, whatever the payload and the If-Match header.                       *)
C4_Original ==
  (/\ Answered
   /\ req.op \in {"update_post", "delete_post"}
   /\ Existed
   /\ ~ByCreator)
  => (resp.status = 403 /\ StoreUnchanged)

(* C4 as amended: an authenticated PUT or DELETE on an existing post whose  *)
(* created_by differs from the stored one is answered 403 and leaves the    *)
(* store as it was, whatever the payload and the If-Match header.           *)
C4_Ownership ==
  (/\ Answered
   /\ req.op \in {"update_post", "delete_post"}
   /\ Authenticated
   /\ Existed
   /\ ~ByCreator)
  => (resp.status = 403 /\ StoreUnchanged)

C4_Witness ==
  /\ Answered
  /\ req.op = "update_post"
  /\ Authenticated
  /\ Existed
  /\ ~ByCreator
  /\ req.header # None
  /\ req.payload.fields_set = {"title", "interest_ids"}
  /\ resp.status = 403
  /\ StoreUnchanged

(* C5: a request without the identity header, or with an empty one, is      *)
(* answered 401 on every route and leaves the store as it was.              *)
C5_FailsClosed ==
  (Answered /\ ~Authenticated) => (resp.status = 401 /\ StoreUnchanged)

(* the interest_ids list of a create or update request, <<>> when absent *)
RequestedInterests ==
  IF req.op = "create_post" THEN req.payload.interest_ids
  ELSE IF req.op = "update_post" /\ req.payload.interest_ids # NoneList
  THEN req.payload.interest_ids[1]
  ELSE <<>>

(* C6: a create, or an update that passes its checks, naming an interest    *)
(* that does not exist is answered 400 and the committed association table  *)
(* is what it was before.                                                   *)
C6_InvalidInterest ==
  (/\ Answered
   /\ Authenticated
   /\ \/ req.op = "create_post"
      \/ req.op = "update_post" /\ ByCreator /\ req.header = None
   /\ HasMissingInterest(RequestedInterests))
  => (resp.status = 400 /\ PostInterests = before.PostInterests)

(* C7: a create that names an interest that does not exist is answered 400  *)
(* and the committed Posts table is what it was before.                     *)
C7_CreateAtomic ==
  (/\ Answered
   /\ req.op = "create_post"
   /\ Authenticated
   /\ HasMissingInterest(req.payload.interest_ids))
  => (resp.status = 400 /\ Posts = before.Posts)

(* C8: an update that supplies scalar fields and an interest_ids list with  *)
(* an interest that does not exist is answered 400 and leaves title, body   *)
(* and image_url of the post as they were.                                  *)
C8_UpdateAtomic ==
  (/\ Answered
   /\ req.op = "update_post"
   /\ Authenticated
   /\ ByCreator
   /\ req.header = None
   /\ req.payload.fields_set \ {"interest_ids"} # {}
   /\ HasMissingInterest(RequestedInterests))
  => (resp.status = 400 /\ Posts = before.Posts)

(* C9: an authenticated create with only existing interest ids stores a new *)
(* post with the request's title, body, image_url and created_by and is     *)
(* answered 201 with Location /posts/{new id}.                              *)
C9_CreateSucceeds ==
  (/\ Answered
   /\ req.op = "create_post"
   /\ Authenticated
   /\ ~HasMissingInterest(req.payload.interest_ids))
  => /\ resp.status = 201
     /\ \E id \in DOMAIN Posts \ DOMAIN before.Posts :
          /\ Posts[id].title = req.payload.title
          /\ Posts[id].body = req.payload.body
          /\ Posts[id].image_url = req.payload.image_url
          /\ Posts[id].created_by = req.payload.created_by
          /\ resp.location = "/posts/" \o ToString(id)

(* C10: a create with a list L of existing interest ids makes a post whose  *)
(* interests, as a fetch returns them, are exactly the ids in L.            *)
C10_RoundTrip ==
  (/\ Answered
   /\ req.op = "create_post"
   /\ Authenticated
   /\ ~HasMissingInterest(req.payload.interest_ids))
  => \E id \in DOMAIN Posts \ DOMAIN before.Posts :
       {i.interest_id : i \in Range(get_post_interests(PostInterests, id))}
         = Range(req.payload.interest_ids)

ScalarFields == {"title", "body", "image_url"}

(* the interest ids associated with a post in table rows *)
InterestsOf(rows, post_id) == {r[2] : r \in {x \in rows : x[1] = post_id}}

(* C11: a PUT answered 200 sets exactly the scalar fields the payload       *)
(* supplies with a value that is not null, keeps every other field of the   *)
(* post, keeps the associations when the payload has no interest_ids, and   *)
(* with an empty payload returns the resource as it was.                    *)
C11_PartialUpdate ==
  (/\ Answered
   /\ req.op = "update_post"
   /\ resp.status = 200)
  => /\ DOMAIN Posts = DOMAIN before.Posts
     /\ \A id \in DOMAIN Posts \ {req.post_id} : Posts[id] = before.Posts[id]
     /\ \A k \in DOMAIN Posts[req.post_id] :
          Posts[req.post_id][k] =
            IF k \in ScalarFields \cap req.payload.fields_set /\ req.payload[k] # None
            THEN req.payload[k]
            ELSE before.Posts[req.post_id][k]
     /\ "interest_ids" \notin req.payload.fields_set
          => PostInterests = before.PostInterests
     /\ req.payload.fields_set = {}
          => /\ StoreUnchanged
             /\ \A k \in ScalarFields :
                  resp.body[k] = before.Posts[req.post_id][k]
             /\ resp.body.interests
                  = get_post_interests(before.PostInterests, req.post_id)

C11_Witness ==
  /\ Answered
  /\ req.op = "update_post"
  /\ resp.status = 200
  /\ req.payload.fields_set = {"title"}
  /\ Posts[req.post_id].title # before.Posts[req.post_id].title
  /\ Posts[req.post_id].body = "b1"
  /\ Posts[req.post_id].image_url = "u1"
  /\ InterestsOf(PostInterests, req.post_id) = {1, 2}

(* C12: after a PUT answered 200 whose payload carries interest_ids = L,    *)
(* the post is associated with exactly the ids in L, and with none when L   *)
(* is empty; the associations of other posts are as they were.              *)
C12_ReplaceAll ==
  (/\ Answered
   /\ req.op = "update_post"
   /\ resp.status = 200
   /\ "interest_ids" \in req.payload.fields_set)
  => /\ ~HasMissingInterest(req.payload.interest_ids[1])
     /\ InterestsOf(PostInterests, req.post_id) = Range(req.payload.interest_ids[1])
     /\ {r \in PostInterests : r[1] # req.post_id}
          = {r \in before.PostInterests : r[1] # req.post_id}

C12_Witness ==
  /\ Answered
  /\ req.op = "update_post"
  /\ resp.status = 200
  /\ InterestsOf(before.PostInterests, req.post_id) = {1}
  /\ req.payload.interest_ids = SomeList(<<2>>)
  /\ InterestsOf(PostInterests, req.post_id) = {2}

(* t occurs in s; a NULL column holds no text *)
Substring(t, s) ==
  /\ s # None
  /\ \E i \in 1..(Len(s) - Len(t) + 1) : SubSeq(s, i, i + Len(t) - 1) = t

(* the stored post satisfies every filter the query supplies *)
Satisfies(post_id, q) ==
  /\ q.interest_id # NoneInt => <<post_id, q.interest_id[1]>> \in before.PostInterests
  /\ q.created_by # NoneInt => before.Posts[post_id].created_by = q.created_by[1]
  /\ q.search # None => \/ Substring(q.search, before.Posts[post_id].title)
                        \/ Substring(q.search, before.Posts[post_id].body)

(* as Satisfies, a filter being supplied when its value is truthy *)
SatisfiesTruthy(post_id, q) ==
  /\ TruthyInt(q.interest_id) => <<post_id, q.interest_id[1]>> \in before.PostInterests
  /\ TruthyInt(q.created_by) => before.Posts[post_id].created_by = q.created_by[1]
  /\ Truthy(q.search) => \/ Substring(q.search, before.Posts[post_id].title)
                         \/ Substring(q.search, before.Posts[post_id].body)

(* items is the page of at most limit posts of the set matching that starts *)
(* at offset skip of a descending creation order                            *)
IsPage(items, matching, skip, limit) ==
  LET n == Cardinality(matching)
      size == IF n - skip < 0 THEN 0 ELSE IF n - skip < limit THEN n - skip ELSE limit
      at(id) == Rank(before.Posts[id].created_at)
  IN /\ Len(items) = size
     /\ \A i \in 1..Len(items) :
          /\ items[i].post_id \in matching
          /\ Cardinality({id \in matching : at(id) > at(items[i].post_id)})
               <= skip + i - 1
          /\ Cardinality({id \in matching : at(id) >= at(items[i].post_id)})
               >= skip + i
     /\ \A i, j \in 1..Len(items) : i # j => items[i].post_id # items[j].post_id

(* C13: the list's total is the number of stored posts that satisfy every   *)
(* supplied filter, whatever skip and limit, and items is the page of those *)
(* posts at offset skip in descending creation order; a filter is supplied  *)
(* whenever its parameter is given, for every integer value.                *)
C13_Filtering ==
  (/\ Answered
   /\ req.op = "get_posts"
   /\ Authenticated)
  => LET matching == {id \in DOMAIN before.Posts : Satisfies(id, req.payload)}
     IN /\ resp.status = 200
        /\ resp.body.total = Cardinality(matching)
        /\ IsPage(resp.body.items, matching, req.payload.skip, req.payload.limit)

(* the list filters on the parameters whose value is truthy *)
ListFiltersOnTruthy ==
  (/\ Answered
   /\ req.op = "get_posts"
   /\ Authenticated)
  => LET matching == {id \in DOMAIN before.Posts : SatisfiesTruthy(id, req.payload)}
     IN /\ resp.status = 200
        /\ resp.body.total = Cardinality(matching)
        /\ IsPage(resp.body.items, matching, req.payload.skip, req.payload.limit)

Absent == [href |-> None]

(* the link to the page at offset k *)
PageAt(k, limit) ==
  [href |-> "/posts?skip=" \o ToString(k) \o "&limit=" \o ToString(limit)]

(* the offset of the last page: the largest multiple of limit below total,  *)
(* 0 when there is no post                                                   *)
LastOffset(total, limit) ==
  IF total = 0 THEN 0
  ELSE CHOOSE k \in 0..(total - 1) : k % limit = 0 /\ k + limit >= total

(* C14: for total >= 0, skip >= 0 and 1 <= limit <= 100, has_more is        *)
(* skip + limit < total; next is present exactly then and points to         *)
(* skip + limit; prev is present exactly when skip > 0 and points to        *)
(* max(0, skip - limit); last points to floor((total - 1) / limit) * limit, *)
(* at least 0.                                                               *)
C14_Pagination ==
  (/\ Answered
   /\ req.op = "get_posts"
   /\ "total" \in DOMAIN req.payload)
  => LET total == req.payload.total
         skip  == req.payload.skip
         limit == req.payload.limit
         links == resp.body.links
     IN /\ resp.body.has_more = (skip + limit < total)
        /\ (links.next # Absent) = (skip + limit < total)
        /\ skip + limit < total => links.next = PageAt(skip + limit, limit)
        /\ (links.prev # Absent) = (skip > 0)
        /\ skip > 0 => links.prev = PageAt(IF skip > limit THEN skip - limit ELSE 0,
                                           limit)
        /\ links.last = PageAt(LastOffset(total, limit), limit)

C14_Witness ==
  /\ Answered
  /\ req.op = "get_posts"
  /\ req.payload = [skip |-> 20, limit |-> 10, total |-> 25]
  /\ resp.body.has_more = FALSE
  /\ resp.body.links.next = Absent
  /\ resp.body.links.prev = PageAt(10, 10)
  /\ resp.body.links.last = PageAt(20, 10)

(* C15: no request changes the created_by or the created_at of a post that  *)
(* exists before and after it, and an update neither removes a post nor     *)
(* adds one, whatever keys its payload carries.                             *)
C15_Immutable ==
  Answered
  => /\ \A id \in DOMAIN Posts \cap DOMAIN before.Posts :
          /\ Posts[id].created_by = before.Posts[id].created_by
          /\ Posts[id].created_at = before.Posts[id].created_at
     /\ req.op = "update_post" => DOMAIN Posts = DOMAIN before.Posts

C15_Witness ==
  /\ Answered
  /\ req.op = "update_post"
  /\ resp.status = 200
  /\ DOMAIN req.payload = {"title", "created_by"}
  /\ req.payload.created_by # Posts[req.post_id].created_by
  /\ Posts[req.post_id].title = req.payload.title
  /\ Posts[req.post_id].title # before.Posts[req.post_id].title

(* C16: an authenticated PUT checks existence, then ownership, then         *)
(* If-Match, then the interests, each before any write: a missing post is   *)
(* answered 404 whatever created_by and If-Match are, a foreign created_by  *)
(* 403 even with a stale If-Match, a stale If-Match by the creator 412 even *)
(* with an interest that does not exist, and a PUT that any of the checks   *)
(* rejects leaves the store as it was.                                      *)
C16_CheckOrder ==
  (/\ Answered
   /\ req.op = "update_post"
   /\ Authenticated)
  => /\ ~Existed => resp.status = 404
     /\ (Existed /\ ~ByCreator) => resp.status = 403
     /\ (ByCreator /\ SendsHeld /\ ~held.fresh) => resp.status = 412
     /\ resp.status \in {404, 403, 412, 400} => StoreUnchanged

(* both threads are done, carried the same If-Match token and ran their     *)
(* checks before either of them wrote                                       *)
Raced ==
  /\ threads # <<>>
  /\ \A w \in Workers : /\ threads[w].pc = "done"
                        /\ threads[w].writes_seen = 0
  /\ threads[1].req.header = threads[2].req.header
  /\ Truthy(threads[1].req.header)

(* the fields of the stored post that thread w's payload sets *)
WrittenBy(w) ==
  {k \in threads[w].req.payload.fields_set : threads[w].req.payload[k] # None}

(* C17: when two PUTs on a post carry the same If-Match token, which        *)
(* matches the stored state, and both run their checks before either        *)
(* writes, neither is answered 412: both are answered 200 and the post      *)
(* holds what the later of the two wrote.                                   *)
C17_RacePastCheck ==
  Raced
  => /\ \A w \in Workers : threads[w].resp.status = 200
     /\ \A w \in Workers :
          threads[w].turn = 2
          => \A k \in WrittenBy(w) : Posts[1][k] = threads[w].req.payload[k]

C17_Witness ==
  /\ Raced
  /\ threads[1].resp.status = 200
  /\ threads[2].resp.status = 200
  /\ threads[1].turn = 1
  /\ threads[2].turn = 2
  /\ threads[1].req.payload.title = "t2"
  /\ threads[2].req.payload.title = "t1"
  /\ Posts[1].title = "t1"

(* C18: the ETag a PUT answered 200 returned is the ETag of the post as a   *)
(* following GET computes it, with no write in between: sent as             *)
(* If-None-Match it is answered 304, and sent as If-Match by the creator it *)
(* is not answered 412.                                                      *)
C18_WriteReadAgree ==
  (/\ Answered
   /\ Existed
   /\ SendsHeld
   /\ held.src = "update_post"
   /\ held.fresh)
  => /\ req.op = "get_post" => resp.status = 304
     /\ (req.op = "update_post" /\ Authenticated /\ ByCreator) => resp.status # 412

(* C19: every association row refers to a post that exists, and a GET of a  *)
(* post that a DELETE answered 200 removed finds no post.                   *)
C19_NoDangling ==
  /\ \A r \in PostInterests : r[1] \in DOMAIN Posts
  /\ (Answered /\ req.op = "delete_post" /\ resp.status = 200)
       => /\ req.post_id \notin DOMAIN Posts
          /\ get_post(Posts, PostInterests, auto_increment, req.post_id, None)
               .resp.status = 404

====
